---- MODULE Spec2Model ----
(***************************************************************************)
(* Anchor validation of the CSS anchor positioning polyfill                *)
(* (src/src/validate.ts).                                                  *)
(*                                                                         *)
(* The host document is the state the functions read: the element tree     *)
(* (parentElement, contains), the containing-block lookup (offsetParent),  *)
(* each element's inline and computed style, and the user agent.  The      *)
(* functions never change it.  Each exported function is an operator that  *)
(* is computed the way the code computes it, and an action that calls it   *)
(* on arguments drawn from the document; isValidAnchorElement is also run  *)
(* statement by statement, so that its while loop is a sequence of steps.  *)
(***************************************************************************)
EXTENDS Integers, Sequences, FiniteSets

\* Number of elements of the document: body and its descendants.
NumElements == 3

\* Longest anchorSelectors array passed to validatedForPositioning.
MaxSelectors == 2

\* null (and undefined): the absent element.
Null == 0

\* document.querySelector('body'): the first element in document order.
Body == 1

\* The separator that Array.prototype.join(', ') puts between selectors.
Comma == 0

\* The elements, numbered in document order (preorder of the tree).
Elements == 1..NumElements

VARIABLES
    parentElement,    \* el.parentElement, Null for body (its parent, html, is not an element of the model and has default style)
    offsetParent,     \* el.offsetParent
    style,            \* el.style and getComputedStyle(el)
    firefox,          \* navigator.userAgent.includes('Firefox')
    fn,               \* the function being called
    pc,               \* where the call is
    el,               \* argument of isAbsolutelyPositioned / hasDisplayNone
    anchor,           \* argument of isValidAnchorElement
    floating,         \* floatingEl / floatingElement / floating
    anchorSelectors,  \* argument of validatedForPositioning
    currentCB,        \* local of isValidAnchorElement
    anchorCBchain,    \* local of isValidAnchorElement
    returnedAt,       \* the return statement a call of isValidAnchorElement left by
    result,           \* boolean return value
    found,            \* return value of validatedForPositioning
    threw,            \* the call ended with the host's SyntaxError
    queried           \* document.querySelectorAll was called

dom == <<parentElement, offsetParent, style, firefox>>
vars == <<parentElement, offsetParent, style, firefox, fn, pc, el, anchor,
          floating, anchorSelectors, currentCB, anchorCBchain, returnedAt,
          result, found, threw, queried>>

----------------------------------------------------------------------------
(* The host document *)

\* The inclusive ancestors of e in the tree p.
RECURSIVE AncestorsOrSelf(_, _)
AncestorsOrSelf(p, e) ==
    IF e = Null THEN {} ELSE {e} \cup AncestorsOrSelf(p, p[e])

\* Trees over Elements rooted at body whose numbering is document order:
\* the parent of e is the previous element or one of its ancestors.
DocumentTrees ==
    {p \in [Elements -> {Null} \cup Elements] :
        /\ p[Body] = Null
        /\ \A e \in Elements \ {Body} : p[e] \in AncestorsOrSelf(p, e - 1)}

\* offsetParent is null or a proper ancestor; body has none.
OffsetParents(p) ==
    {o \in [Elements -> {Null} \cup Elements] :
        \A e \in Elements : o[e] \in {Null} \cup (AncestorsOrSelf(p, e) \ {e})}

PlainStyle ==
    [position |-> "", computedPosition |-> "static",
     display |-> "", computedDisplay |-> "block"]

\* The styles of the documents of Spec: unstyled, position: absolute set
\* inline, display: none set by a stylesheet.
CascadeStyles ==
    {PlainStyle,
     [PlainStyle EXCEPT !.position = "absolute", !.computedPosition = "absolute"],
     [PlainStyle EXCEPT !.computedDisplay = "none"]}

\* Every combination of inline and computed values.
AllStyles ==
    [position : {"", "absolute", "relative"},
     computedPosition : {"static", "absolute", "relative"},
     display : {"", "none", "block"},
     computedDisplay : {"block", "none"}]

\* Node.contains: other is node or a descendant of node.
Contains(node, other) ==
    other # Null /\ node \in AncestorsOrSelf(parentElement, other)

----------------------------------------------------------------------------
(* Selectors.  A selector string is a sequence of tokens: the id selector  *)
(* of element e is <<e>>, and Comma separates the selectors of a list.     *)

IdSelector(e) == <<e>>

Selectors == {IdSelector(e) : e \in Elements}

\* The anchorSelectors arrays: up to MaxSelectors distinct selectors, in
\* any order.
SelectorLists ==
    UNION {{sels \in [1..n -> Selectors] :
               \A i, j \in 1..n : sels[i] = sels[j] => i = j} :
           n \in 0..MaxSelectors}

\* anchorSelectors.join(', ')
RECURSIVE Join(_)
Join(sels) ==
    IF Len(sels) = 0 THEN <<>>
    ELSE IF Len(sels) = 1 THEN sels[1]
    ELSE sels[1] \o <<Comma>> \o Join(Tail(sels))

\* The selectors of a selector list: the text between the commas.
RECURSIVE Split(_, _)
Split(text, part) ==
    IF Len(text) = 0 THEN <<part>>
    ELSE IF Head(text) = Comma THEN <<part>> \o Split(Tail(text), <<>>)
    ELSE Split(Tail(text), Append(part, Head(text)))

\* The host parses a selector list; an empty selector is a SyntaxError.
IsValidSelectorText(text) ==
    LET parts == Split(text, <<>>)
    IN \A i \in 1..Len(parts) : Len(parts[i]) = 1

\* The elements a selector list matches.
MatchSet(text) ==
    LET parts == Split(text, <<>>)
    IN {e \in Elements : \E i \in 1..Len(parts) : parts[i] = IdSelector(e)}

\* A set of elements as the NodeList in document order.
RECURSIVE InDocumentOrder(_)
InDocumentOrder(S) ==
    IF S = {} THEN <<>>
    ELSE LET m == CHOOSE x \in S : \A y \in S : x <= y
         IN <<m>> \o InDocumentOrder(S \ {m})

\* document.querySelectorAll(text), for a valid text.
QuerySelectorAll(text) == InDocumentOrder(MatchSet(text))

----------------------------------------------------------------------------
(* The functions of validate.ts *)

\* isAbsolutelyPositioned reading the computed style only.
IsAbsolutelyPositionedComputedOnly(e) ==
    e # Null /\ style[e].computedPosition = "absolute"

\* isAbsolutelyPositioned(el)
IsAbsolutelyPositioned(e) ==
    /\ e # Null
    /\ \/ style[e].position = "absolute"
       \/ style[e].computedPosition = "absolute"

\* hasDisplayNone(el)
HasDisplayNone(e) ==
    /\ e # Null
    /\ \/ style[e].display = "none"
       \/ style[e].computedDisplay = "none"

\* isContainingBlockICB without the check of the parent's display.
IsContainingBlockICBOwnDisplay(f) ==
    /\ offsetParent[f] = Null \/ (offsetParent[f] = Body /\ firefox)
    /\ ~(style[f].display = "none" \/ style[f].computedDisplay = "none")

\* isContainingBlockICB(floatingElement)
IsContainingBlockICB(f) ==
    LET isDisplayNone ==
            HasDisplayNone(f) \/ HasDisplayNone(parentElement[f])
        cbIsBodyElementFromFF == offsetParent[f] = Body /\ firefox
        offsetParentNullOrBody ==
            offsetParent[f] = Null \/ cbIsBodyElementFromFF
    IN IF offsetParentNullOrBody /\ ~isDisplayNone THEN TRUE ELSE FALSE

\* The first if comparing only containing blocks that are elements.
SameCBAndAbsoluteNonNull(a, f) ==
    /\ (style[a].position = "absolute" \/ style[a].computedPosition = "absolute")
    /\ offsetParent[a] # Null
    /\ offsetParent[a] = offsetParent[f]

\* The first if of isValidAnchorElement.
SameCBAndAbsolute(a, f) ==
    IsAbsolutelyPositioned(a) /\ offsetParent[a] = offsetParent[f]

\* The while loop walking to the end of the chain, past the floating
\* element's containing block.
WhileConditionToRoot(cb, f) ==
    cb # Null

\* The condition of the while loop of isValidAnchorElement.
WhileCondition(cb, f) ==
    cb # Null /\ cb # offsetParent[f]

\* The first element of the chain in place of the last.
FirstInChain(chain) ==
    IF Len(chain) = 0 THEN Null ELSE chain[1]

\* anchorCBchain[anchorCBchain.length - 1]; undefined for the empty chain,
\* which isAbsolutelyPositioned treats as it treats null.
LastInChain(chain) ==
    IF Len(chain) = 0 THEN Null ELSE chain[Len(chain)]

\* The while loop of isValidAnchorElement, run to its end.
RECURSIVE WalkChain(_, _, _)
WalkChain(cb, chain, f) ==
    IF WhileCondition(cb, f)
    THEN WalkChain(offsetParent[cb], Append(chain, cb), f)
    ELSE chain

\* The last if without the initial-containing-block alternative.
DescendantOnly(a, f) ==
    offsetParent[f] # Null /\ Contains(offsetParent[f], a)

\* The last if of isValidAnchorElement.
DescendantOrICB(a, f) ==
    LET isDescendant ==
            offsetParent[f] # Null /\ Contains(offsetParent[f], a)
        floatingCBIsInitialCB == IsContainingBlockICB(f)
    IN IF isDescendant \/ floatingCBIsInitialCB THEN TRUE ELSE FALSE

\* isValidAnchorElement(anchor, floating)
IsValidAnchorElement(a, f) ==
    IF SameCBAndAbsolute(a, f) THEN FALSE
    ELSE IF /\ offsetParent[a] # offsetParent[f]
            /\ IsAbsolutelyPositioned(
                   LastInChain(WalkChain(offsetParent[a], <<>>, f)))
         THEN FALSE
    ELSE DescendantOrICB(a, f)

\* The for loop of validatedForPositioning over the NodeList from index i.
RECURSIVE FirstValid(_, _, _)
FirstValid(anchorElements, i, f) ==
    IF i > Len(anchorElements) THEN Null
    ELSE IF IsValidAnchorElement(anchorElements[i], f) THEN anchorElements[i]
    ELSE FirstValid(anchorElements, i + 1, f)

\* validatedForPositioning querying the document before it looks at
\* floatingEl.
ValidatedForPositioningQueryFirst(f, sels) ==
    LET text == Join(sels)
    IN IF ~IsValidSelectorText(text)
       THEN [found |-> Null, queried |-> TRUE, threw |-> TRUE]
       ELSE [found |-> IF f = Null THEN Null
                       ELSE FirstValid(QuerySelectorAll(text), 1, f),
             queried |-> TRUE, threw |-> FALSE]

\* validatedForPositioning(floatingEl, anchorSelectors): what it returns,
\* whether it queried the document, and whether the query threw.
ValidatedForPositioning(f, sels) ==
    IF f = Null
    THEN [found |-> Null, queried |-> FALSE, threw |-> FALSE]
    ELSE LET text == Join(sels)
         IN IF ~IsValidSelectorText(text)
            THEN [found |-> Null, queried |-> TRUE, threw |-> TRUE]
            ELSE [found |-> FirstValid(QuerySelectorAll(text), 1, f),
                  queried |-> TRUE, threw |-> FALSE]

----------------------------------------------------------------------------
(* Calls *)

NoLocals ==
    /\ el = Null
    /\ anchor = Null
    /\ floating = Null
    /\ anchorSelectors = <<>>
    /\ currentCB = Null
    /\ anchorCBchain = <<>>
    /\ returnedAt = "none"
    /\ result = FALSE
    /\ found = Null
    /\ threw = FALSE
    /\ queried = FALSE

\* A call starts from the caller, with its arguments.
Enter(name, e, a, f, sels) ==
    /\ pc = "idle"
    /\ fn' = name
    /\ el' = e
    /\ anchor' = a
    /\ floating' = f
    /\ anchorSelectors' = sels
    /\ UNCHANGED dom

CallIsAbsolutelyPositioned ==
    \E e \in {Null} \cup Elements :
        /\ Enter("isAbsolutelyPositioned", e, Null, Null, <<>>)
        /\ result' = IsAbsolutelyPositioned(e)
        /\ pc' = "done"
        /\ currentCB' = Null /\ anchorCBchain' = <<>> /\ returnedAt' = "none"
        /\ found' = Null /\ threw' = FALSE /\ queried' = FALSE

CallHasDisplayNone ==
    \E e \in {Null} \cup Elements :
        /\ Enter("hasDisplayNone", e, Null, Null, <<>>)
        /\ result' = HasDisplayNone(e)
        /\ pc' = "done"
        /\ currentCB' = Null /\ anchorCBchain' = <<>> /\ returnedAt' = "none"
        /\ found' = Null /\ threw' = FALSE /\ queried' = FALSE

CallIsContainingBlockICB ==
    \E f \in Elements :
        /\ Enter("isContainingBlockICB", Null, Null, f, <<>>)
        /\ result' = IsContainingBlockICB(f)
        /\ pc' = "done"
        /\ currentCB' = Null /\ anchorCBchain' = <<>> /\ returnedAt' = "none"
        /\ found' = Null /\ threw' = FALSE /\ queried' = FALSE

CallValidatedForPositioning ==
    \E f \in {Null} \cup Elements, sels \in SelectorLists :
        LET r == ValidatedForPositioning(f, sels)
        IN /\ Enter("validatedForPositioning", Null, Null, f, sels)
           /\ found' = r.found
           /\ threw' = r.threw
           /\ queried' = r.queried
           /\ pc' = "done"
           /\ currentCB' = Null /\ anchorCBchain' = <<>>
           /\ returnedAt' = "none" /\ result' = FALSE

\* isValidAnchorElement up to the while loop: the first if, the second
\* if's condition and the loop's initialisation.
CallIsValidAnchorElement ==
    \E a \in Elements, f \in Elements :
        /\ Enter("isValidAnchorElement", Null, a, f, <<>>)
        /\ anchorCBchain' = <<>>
        /\ found' = Null /\ threw' = FALSE /\ queried' = FALSE
        /\ IF SameCBAndAbsolute(a, f)
           THEN /\ pc' = "done"
                /\ result' = FALSE
                /\ returnedAt' = "sameCB"
                /\ currentCB' = Null
           ELSE IF offsetParent[a] # offsetParent[f]
           THEN /\ pc' = "while"
                /\ currentCB' = offsetParent[a]
                /\ result' = FALSE
                /\ returnedAt' = "none"
           ELSE /\ pc' = "descendantOrICB"
                /\ currentCB' = Null
                /\ result' = FALSE
                /\ returnedAt' = "none"

\* One iteration of the while loop.
WhileStep ==
    /\ pc = "while"
    /\ WhileCondition(currentCB, floating)
    /\ anchorCBchain' = Append(anchorCBchain, currentCB)
    /\ currentCB' = offsetParent[currentCB]
    /\ UNCHANGED <<dom, fn, pc, el, anchor, floating, anchorSelectors,
                   returnedAt, result, found, threw, queried>>

\* The loop's exit and the check of the last element of the chain.
WhileExit ==
    /\ pc = "while"
    /\ ~WhileCondition(currentCB, floating)
    /\ IF IsAbsolutelyPositioned(LastInChain(anchorCBchain))
       THEN /\ pc' = "done"
            /\ result' = FALSE
            /\ returnedAt' = "lastInChain"
       ELSE /\ pc' = "descendantOrICB"
            /\ UNCHANGED <<result, returnedAt>>
    /\ UNCHANGED <<dom, fn, el, anchor, floating, anchorSelectors,
                   currentCB, anchorCBchain, found, threw, queried>>

\* The last if and the two returns after it.
DescendantOrICBReturn ==
    /\ pc = "descendantOrICB"
    /\ result' = DescendantOrICB(anchor, floating)
    /\ returnedAt' = "descendantOrICB"
    /\ pc' = "done"
    /\ UNCHANGED <<dom, fn, el, anchor, floating, anchorSelectors,
                   currentCB, anchorCBchain, found, threw, queried>>

\* The caller takes the return value (or the exception); nothing of the
\* call is kept.
Return ==
    /\ pc = "done"
    /\ pc' = "idle"
    /\ fn' = "none"
    /\ el' = Null
    /\ anchor' = Null
    /\ floating' = Null
    /\ anchorSelectors' = <<>>
    /\ currentCB' = Null
    /\ anchorCBchain' = <<>>
    /\ returnedAt' = "none"
    /\ result' = FALSE
    /\ found' = Null
    /\ threw' = FALSE
    /\ queried' = FALSE
    /\ UNCHANGED dom

----------------------------------------------------------------------------
(* Specifications *)

Documents(styles) ==
    /\ parentElement \in DocumentTrees
    /\ offsetParent \in OffsetParents(parentElement)
    /\ style \in [Elements -> styles]
    /\ firefox \in BOOLEAN

Init ==
    /\ Documents(CascadeStyles)
    /\ fn = "none"
    /\ pc = "idle"
    /\ NoLocals

Next ==
    \/ CallIsContainingBlockICB
    \/ CallIsValidAnchorElement
    \/ WhileStep
    \/ WhileExit
    \/ DescendantOrICBReturn
    \/ Return

\* The calls of isContainingBlockICB and isValidAnchorElement.
Spec == Init /\ [][Next]_vars

\* A call runs to its end: the host is single-threaded and synchronous.
LiveSpec ==
    /\ Spec
    /\ WF_vars(WhileStep)
    /\ WF_vars(WhileExit)
    /\ WF_vars(DescendantOrICBReturn)

NextLookup == CallValidatedForPositioning \/ Return

\* The calls of validatedForPositioning.
SpecLookup == Init /\ [][NextLookup]_vars

\* Documents in which one element carries any style and the others none.
InitStyles ==
    /\ parentElement = [e \in Elements |-> IF e = Body THEN Null ELSE Body]
    /\ offsetParent = [e \in Elements |-> Null]
    /\ \E e \in Elements, s \in AllStyles :
           style = [x \in Elements |-> IF x = e THEN s ELSE PlainStyle]
    /\ firefox = FALSE
    /\ fn = "none"
    /\ pc = "idle"
    /\ NoLocals

NextStyles == CallIsAbsolutelyPositioned \/ CallHasDisplayNone \/ Return

\* The calls of isAbsolutelyPositioned and hasDisplayNone.
SpecStyles == InitStyles /\ [][NextStyles]_vars

----------------------------------------------------------------------------
(* Properties *)

Returned(name) == pc = "done" /\ fn = name

\* The style values read directly.
PositionAbsolute(e) ==
    style[e].position = "absolute" \/ style[e].computedPosition = "absolute"

DisplayNone(e) ==
    style[e].display = "none" \/ style[e].computedDisplay = "none"

\* The floating element, or its parent in the tree, has display none.
FloatingHidden(f) ==
    DisplayNone(f) \/ (parentElement[f] # Null /\ DisplayNone(parentElement[f]))

\* The containing-block parent of f is absent, or is body under Firefox.
RootContainingBlock(f) ==
    offsetParent[f] = Null \/ (offsetParent[f] = Body /\ firefox)

\* The elements the selectors of a list match, each taken alone.
MatchedByAny(sels) ==
    {e \in Elements : \E i \in 1..Len(sels) : sels[i] = IdSelector(e)}

\* f's containing-block parent is an element and a is below it in the tree.
ProperDescendantOfCB(a, f) ==
    /\ offsetParent[f] # Null
    /\ a # offsetParent[f]
    /\ offsetParent[f] \in AncestorsOrSelf(parentElement, a)

\* c is the chain of containing-block parents from a's up to, and without,
\* f's containing-block parent or the end.
IsChainBetween(c, a, f) ==
    /\ \A i \in 1..Len(c) :
           /\ c[i] = IF i = 1 THEN offsetParent[a] ELSE offsetParent[c[i - 1]]
           /\ c[i] # Null
           /\ c[i] # offsetParent[f]
    /\ LET next == IF Len(c) = 0 THEN offsetParent[a]
                   ELSE offsetParent[c[Len(c)]]
       IN next = Null \/ next = offsetParent[f]

\* C1: for a present floating element and any selector list,
\* validatedForPositioning returns (without an exception) the first element
\* in document order among the valid matches of the union of the selectors,
\* and null exactly when no match is valid.
C1_FirstValidMatch ==
    (Returned("validatedForPositioning") /\ floating # Null) =>
        LET valid == {e \in MatchedByAny(anchorSelectors) :
                         IsValidAnchorElement(e, floating)}
        IN /\ ~threw
           /\ valid = {} => found = Null
           /\ valid # {} => (found \in valid /\ \A e \in valid : found <= e)

\* The part of C1 that the code keeps: the same, for a selector list that
\* is not empty.
C1_FirstValidMatchOfNonEmptyList ==
    (Returned("validatedForPositioning") /\ floating # Null
        /\ anchorSelectors # <<>>) =>
        LET valid == {e \in MatchedByAny(anchorSelectors) :
                         IsValidAnchorElement(e, floating)}
        IN /\ ~threw
           /\ queried
           /\ valid = {} => found = Null
           /\ valid # {} => (found \in valid /\ \A e \in valid : found <= e)

\* C2: isValidAnchorElement returns false whenever anchor and floating have
\* the same containing-block parent (both absent included) and the anchor
\* is absolutely positioned.
C2_SameCBAbsoluteIsInvalid ==
    (Returned("isValidAnchorElement")
        /\ offsetParent[anchor] = offsetParent[floating]
        /\ PositionAbsolute(anchor)) => result = FALSE

\* C2's case: both containing-block parents absent, the floating element's
\* containing block the initial one, the anchor absolute, false returned.
C2_Witness ==
    /\ Returned("isValidAnchorElement")
    /\ offsetParent[anchor] = Null
    /\ offsetParent[floating] = Null
    /\ ~FloatingHidden(floating)
    /\ PositionAbsolute(anchor)
    /\ result = FALSE

\* C3: when the containing-block parents differ, the call leaves by the
\* chain check exactly when the chain from the anchor's containing-block
\* parent (up to the floating element's, or the end) is not empty and its
\* last element is absolutely positioned.
C3_LastInChainDecides ==
    (Returned("isValidAnchorElement")
        /\ offsetParent[anchor] # offsetParent[floating]) =>
        /\ IsChainBetween(anchorCBchain, anchor, floating)
        /\ returnedAt = "lastInChain" <=>
               /\ Len(anchorCBchain) > 0
               /\ PositionAbsolute(anchorCBchain[Len(anchorCBchain)])

\* C3's case: an absolutely positioned element earlier in the chain, a last
\* element that is not, and the anchor valid.
C3_Witness ==
    /\ Returned("isValidAnchorElement")
    /\ offsetParent[anchor] # offsetParent[floating]
    /\ Len(anchorCBchain) >= 2
    /\ PositionAbsolute(anchorCBchain[1])
    /\ ~PositionAbsolute(anchorCBchain[Len(anchorCBchain)])
    /\ result = TRUE

\* C4: a call not left by the first two checks returns true if and only if
\* the anchor is a descendant of the floating element's containing-block
\* parent, or isContainingBlockICB(floating).
C4_DescendantOrICB ==
    (Returned("isValidAnchorElement") /\ returnedAt = "descendantOrICB") =>
        (result = TRUE <=>
            \/ ProperDescendantOfCB(anchor, floating)
            \/ IsContainingBlockICB(floating))

\* The part of C4 that the code keeps: the same, with the containing-block
\* parent itself counted among its descendants.
C4_InclusiveDescendantOrICB ==
    (Returned("isValidAnchorElement") /\ returnedAt = "descendantOrICB") =>
        (result = TRUE <=>
            \/ ProperDescendantOfCB(anchor, floating)
            \/ (offsetParent[floating] # Null /\ anchor = offsetParent[floating])
            \/ (RootContainingBlock(floating) /\ ~FloatingHidden(floating)))

\* C5 as stated: an anchor without containing-block parent is valid
\* whenever the floating element's containing block is the initial one.
C5_RootAnchorValidUnderICB ==
    (Returned("isValidAnchorElement")
        /\ offsetParent[anchor] = Null
        /\ RootContainingBlock(floating)
        /\ ~FloatingHidden(floating)) => result = TRUE

\* C5 amended: an anchor without containing-block parent is valid whenever
\* the floating element's containing block is the initial one, unless the
\* anchor is absolutely positioned and the floating element has no
\* containing-block parent either (the first check).
C5_RootAnchorValidUnlessSameCBAbsolute ==
    (Returned("isValidAnchorElement")
        /\ offsetParent[anchor] = Null
        /\ RootContainingBlock(floating)
        /\ ~FloatingHidden(floating)
        /\ ~(PositionAbsolute(anchor) /\ offsetParent[floating] = Null)) =>
        (result = TRUE /\ returnedAt = "descendantOrICB")

\* C5's case: neither has a containing-block parent, the anchor is not
\* absolutely positioned, and the call returns true.
C5_Witness ==
    /\ Returned("isValidAnchorElement")
    /\ offsetParent[anchor] = Null
    /\ offsetParent[floating] = Null
    /\ anchor # floating
    /\ ~FloatingHidden(floating)
    /\ ~PositionAbsolute(anchor)
    /\ result = TRUE

\* C6: isContainingBlockICB is true if and only if the containing-block
\* parent is absent, or is body under Firefox, and neither the floating
\* element nor its tree parent has display none.
C6_ICBIffRootAndShown ==
    Returned("isContainingBlockICB") =>
        (result = TRUE <=>
            (RootContainingBlock(floating) /\ ~FloatingHidden(floating)))

\* C6's case: no containing-block parent, the parent alone has display
\* none, and the result is false.
C6_Witness ==
    /\ Returned("isContainingBlockICB")
    /\ offsetParent[floating] = Null
    /\ ~DisplayNone(floating)
    /\ parentElement[floating] # Null
    /\ DisplayNone(parentElement[floating])
    /\ result = FALSE

\* C7: with an absent floating element validatedForPositioning returns
\* null for every selector list, queries nothing and throws nothing.
C7_AbsentFloatingNoQuery ==
    (Returned("validatedForPositioning") /\ floating = Null) =>
        (found = Null /\ ~queried /\ ~threw)

\* C7's case: an absent floating element with the empty selector list,
\* whose query would throw.
C7_Witness ==
    /\ Returned("validatedForPositioning")
    /\ floating = Null
    /\ anchorSelectors = <<>>
    /\ found = Null

\* C8: isAbsolutelyPositioned is true exactly for an element whose inline
\* or computed position is "absolute", hasDisplayNone exactly for one whose
\* inline or computed display is "none"; both are false for no element.
C8_InlineOrComputed ==
    /\ Returned("isAbsolutelyPositioned") =>
           (result = TRUE <=> (el # Null /\ PositionAbsolute(el)))
    /\ Returned("hasDisplayNone") =>
           (result = TRUE <=> (el # Null /\ DisplayNone(el)))

\* C8's case: position "absolute" in the inline style only.
C8_Witness ==
    /\ Returned("isAbsolutelyPositioned")
    /\ el # Null
    /\ style[el].position = "absolute"
    /\ style[el].computedPosition # "absolute"
    /\ result = TRUE

\* The chain while isValidAnchorElement runs: no element twice, never the
\* floating element's containing-block parent, no longer than the document.
ChainIsBounded ==
    fn = "isValidAnchorElement" =>
        /\ \A i, j \in 1..Len(anchorCBchain) :
               anchorCBchain[i] = anchorCBchain[j] => i = j
        /\ \A i \in 1..Len(anchorCBchain) :
               anchorCBchain[i] # offsetParent[floating]
        /\ Len(anchorCBchain) <= Cardinality(Elements)

C10_HiddenFloatingHasNoAnchor ==
    (pc = "done" /\ floating # Null /\ offsetParent[floating] = Null
        /\ FloatingHidden(floating)) =>
        /\ fn = "isValidAnchorElement" => result = FALSE
        /\ fn = "validatedForPositioning" => (~threw /\ found = Null)

\* The part of C10 that the code keeps: no anchor is valid, and no call of
\* validatedForPositioning returns an element.
C10_HiddenFloatingNeverFinds ==
    (floating # Null /\ offsetParent[floating] = Null
        /\ FloatingHidden(floating)) =>
        /\ \A a \in Elements : ~IsValidAnchorElement(a, floating)
        /\ Returned("validatedForPositioning") => found = Null

====
